---- MODULE Spec2Model ----
(***************************************************************************)
(* State-machine model of the hear-me-out backend:                         *)
(*   - transcription/repository.py  (SQLite table `transcriptions`)        *)
(*   - transcription/service.py     (TranscriptionsService facade)         *)
(*   - transcriber/service.py       (TranscriberService.transcribe_audio)  *)
(*   - main.py                      (POST /transcribe and the GET routes)  *)
(*                                                                         *)
(* Strings are sequences of one-character strings, so that lower(),        *)
(* endswith(), indexing and LIKE are computed character by character.      *)
(* Time is counted in ticks of 1/TicksPerSecond second.                    *)
(***************************************************************************)
EXTENDS Integers, Sequences, FiniteSets, TLC

VARIABLES
    rows,        \* committed rows of table transcriptions, in rowid order
    writer,      \* caller whose connection holds SQLite's write lock (0: none)
    pending,     \* pending[p]: the row p inserted and has not committed yet
    pc,          \* pc[p]: where caller p is inside TranscriptionsRepository.create
    call,        \* call[p]: p's create call in progress, or its latest one
    done,        \* the successful creates, in the order they committed
    namers,      \* namers[f]: the callers that ever called create(f, *)
    ncalls,      \* number of create calls made so far
    now,         \* wall clock (UTC), in ticks
    lastRead,    \* what the latest read (repository method or GET route) returned
    fsDirs,      \* directories that exist under the temp root
    fsFiles,     \* regular files that exist under the temp root
    ndirs,       \* number of tempfile.mkdtemp() calls made so far
    req          \* req[r]: the locals of POST /transcribe request r

repoVars == <<rows, writer, pending, pc, call, done, namers, ncalls, now, lastRead>>
httpVars == <<fsDirs, fsFiles, ndirs, req>>
vars == <<rows, writer, pending, pc, call, done, namers, ncalls, now, lastRead,
          fsDirs, fsFiles, ndirs, req>>

-----------------------------------------------------------------------------
(* Bounds of the model *)

MaxCalls == 2
MaxTime == 2
TicksPerSecond == 2
MaxBatch == 2

\* Two callers use the repository at the same time, each on its own connection.
Callers == {1, 2}
NoCaller == 0

\* Two POST /transcribe requests can be in flight at the same time.
Reqs == {1, 2}

-----------------------------------------------------------------------------
(* Strings *)

UpperChars == <<"A", "B", "H", "I", "M", "P">>
LowerChars == <<"a", "b", "h", "i", "m", "p">>

\* str.lower() / SQL LOWER() on one character
LowerChar(c) ==
    IF \E i \in 1..Len(UpperChars) : UpperChars[i] = c
    THEN LowerChars[CHOOSE i \in 1..Len(UpperChars) : UpperChars[i] = c]
    ELSE c

Lower(s) == [i \in 1..Len(s) |-> LowerChar(s[i])]

\* str.endswith(suffix)
EndsWith(s, suffix) ==
    /\ Len(s) >= Len(suffix)
    /\ SubSeq(s, Len(s) - Len(suffix) + 1, Len(s)) = suffix

\* q is a contiguous substring of s
IsSubstring(q, s) ==
    \E i \in 1..(Len(s) + 1) :
        /\ i + Len(q) - 1 <= Len(s)
        /\ SubSeq(s, i, i + Len(q) - 1) = q

\* SQLite's  s LIKE p  (no ESCAPE clause): '%' matches any run of characters,
\* '_' matches exactly one character, anything else matches itself.
RECURSIVE Like(_, _)
Like(s, p) ==
    IF p = <<>> THEN s = <<>>
    ELSE IF Head(p) = "%"
         THEN \E k \in 0..Len(s) : Like(SubSeq(s, k + 1, Len(s)), Tail(p))
    ELSE IF s = <<>> THEN FALSE
    ELSE IF Head(p) = "_" THEN Like(Tail(s), Tail(p))
    ELSE LowerChar(Head(s)) = LowerChar(Head(p)) /\ Like(Tail(s), Tail(p))

-----------------------------------------------------------------------------
(* Inputs of the repository operations *)

RepoFileNames == { <<"a", ".", "m", "p", "3">>, <<"B", ".", "m", "p", "3">> }
RepoTexts == { <<"H", "i">>, <<>> }
Queries == { <<>>, <<"i">>, <<"b", ".">>, <<"_">>, <<"%">>, <<"p", "4">> }

-----------------------------------------------------------------------------
(* Record store: table transcriptions *)

\* created_at TIMESTAMP DEFAULT CURRENT_TIMESTAMP: 'YYYY-MM-DD HH:MM:SS' in
\* UTC, i.e. the clock cut to whole seconds.
CurrentTimestamp(t) == t \div TicksPerSecond

\* datetime.fromisoformat(row[3]): the instant that text denotes, in ticks.
FromIsoformat(ts) == ts * TicksPerSecond

\* TranscriptionRecord(record_id=row[0], audio_file_name=row[1],
\*                     transcribed_text=row[2], created_at=fromisoformat(row[3]))
TranscriptionRecord(row) ==
    [ record_id        |-> row.id,
      audio_file_name  |-> row.audio_file_name,
      transcribed_text |-> row.transcribed_text,
      created_at       |-> FromIsoformat(row.created_at) ]

\* Mutant: the column is declared without UNIQUE.
UniqueViolationNever(table, name) == FALSE

\* audio_file_name TEXT NOT NULL UNIQUE (BINARY collation: exact match)
UniqueViolation(table, name) ==
    \E i \in 1..Len(table) : table[i].audio_file_name = name

\* id INTEGER PRIMARY KEY AUTOINCREMENT: one more than the largest rowid the
\* table ever held (rows are never deleted, so that is the last row's).
NextRowId(table) ==
    IF table = <<>> THEN 1 ELSE table[Len(table)].id + 1

\* Mutant: the INSERT does not wait for the write lock.
WriteLockIgnored == TRUE

\* sqlite3.connect(timeout=30) + INSERT: the statement starts once no other
\* connection holds the write lock.
WriteLockFree == writer = NoCaller

\* Mutant: the scan also returns the row of a transaction that has not
\* committed yet.
SelectAllUncommitted(table) ==
    LET committed == [i \in 1..Len(table) |-> TranscriptionRecord(table[i])]
        open == {p \in Callers : pending[p].id # 0}
    IN  IF open = {} THEN committed
        ELSE Append(committed, TranscriptionRecord(pending[CHOOSE p \in open : TRUE]))

\* Mutant: the rows come back newest first.
SelectAllNewestFirst(table) ==
    [i \in 1..Len(table) |-> TranscriptionRecord(table[Len(table) + 1 - i])]

\* SELECT * FROM transcriptions: a scan of the table b-tree, in rowid order
SelectAll(table) == [i \in 1..Len(table) |-> TranscriptionRecord(table[i])]

\* Mutant: the WHERE clause is lost, fetchone() gives the first row.
SelectByIdFirstRow(table, id) ==
    IF table = <<>> THEN <<>> ELSE <<TranscriptionRecord(table[1])>>

\* SELECT * FROM transcriptions WHERE id = ? and fetchone(): <<>> stands for None
SelectById(table, id) ==
    IF \E i \in 1..Len(table) : table[i].id = id
    THEN <<TranscriptionRecord(table[CHOOSE i \in 1..Len(table) : table[i].id = id])>>
    ELSE <<>>

\* Mutant: the parameters are the query itself, without the surrounding '%'.
SearchMatchesExact(row, query) ==
    \/ Like(Lower(row.transcribed_text), Lower(query))
    \/ Like(Lower(row.audio_file_name), Lower(query))

\* WHERE LOWER(transcribed_text) LIKE LOWER(?) OR LOWER(audio_file_name) LIKE LOWER(?)
\* with both parameters f"%{query}%"
SearchMatches(row, query) ==
    LET pattern == Lower(<<"%">> \o query \o <<"%">>)
    IN  \/ Like(Lower(row.transcribed_text), pattern)
        \/ Like(Lower(row.audio_file_name), pattern)

RECURSIVE SelectWhere(_, _)
SelectWhere(table, query) ==
    IF table = <<>> THEN <<>>
    ELSE (IF SearchMatches(Head(table), query)
          THEN <<TranscriptionRecord(Head(table))>> ELSE <<>>)
         \o SelectWhere(Tail(table), query)

-----------------------------------------------------------------------------
(* TranscriptionsRepository.create, one caller per connection *)

NoRow == [id |-> 0, audio_file_name |-> <<>>, transcribed_text |-> <<>>, created_at |-> 0]

NoCall ==
    [ audio_file_name |-> <<>>, transcribed_text |-> <<>>, called_at |-> 0,
      status |-> "none", id |-> 0, stored_before |-> FALSE, overlap |-> {} ]

InFlight(p) == call[p].status = "running"

\* A committed row carries this filename.
Stored(name) == \E i \in 1..Len(rows) : rows[i].audio_file_name = name

\* The table keeps its rows in rowid order (it is a b-tree keyed by rowid).
RECURSIVE InsertByRowid(_, _)
InsertByRowid(table, row) ==
    IF table = <<>> THEN <<row>>
    ELSE IF row.id < Head(table).id THEN <<row>> \o table
    ELSE <<Head(table)>> \o InsertByRowid(Tail(table), row)

\* A caller enters create(audio_file_name, transcribed_text) and opens its
\* own connection.
CreateCall(p, name, text) ==
    /\ pc[p] = "idle"
    /\ ncalls < MaxCalls
    /\ ncalls' = ncalls + 1
    /\ call' = [q \in Callers |->
                  IF q = p
                  THEN [ audio_file_name |-> name, transcribed_text |-> text,
                         called_at |-> now, status |-> "running", id |-> 0,
                         stored_before |-> Stored(name),
                         overlap |-> {r \in Callers \ {p} : InFlight(r)} ]
                  ELSE IF InFlight(q)
                       THEN [call[q] EXCEPT !.overlap = @ \cup {p}]
                       ELSE [call[q] EXCEPT !.overlap = @ \ {p}]]
    /\ namers' = [namers EXCEPT ![name] = @ \cup {p}]
    /\ pc' = [pc EXCEPT ![p] = "execute"]
    /\ UNCHANGED <<rows, writer, pending, done, now, lastRead, httpVars>>

\* cursor.execute("INSERT ..."): takes the write lock, checks the UNIQUE
\* constraint and adds the row to the connection's open transaction; on
\* sqlite3.IntegrityError the ValueError is raised and the connection closed.
CreateExecute(p) ==
    /\ pc[p] = "execute"
    /\ WriteLockFree
    /\ IF UniqueViolation(rows, call[p].audio_file_name)
       THEN /\ call' = [call EXCEPT ![p].status = "ValueError"]
            /\ pc' = [pc EXCEPT ![p] = "idle"]
            /\ UNCHANGED <<rows, writer, pending, done, namers, ncalls, now, lastRead, httpVars>>
       ELSE /\ pending' = [pending EXCEPT ![p] =
                             [ id |-> NextRowId(rows),
                               audio_file_name |-> call[p].audio_file_name,
                               transcribed_text |-> call[p].transcribed_text,
                               created_at |-> CurrentTimestamp(now) ]]
            /\ writer' = p
            /\ pc' = [pc EXCEPT ![p] = "commit"]
            /\ UNCHANGED <<rows, call, done, namers, ncalls, now, lastRead, httpVars>>

\* conn.commit(); return cursor.lastrowid; conn.close()
CreateCommit(p) ==
    /\ pc[p] = "commit"
    /\ rows' = InsertByRowid(rows, pending[p])
    /\ call' = [call EXCEPT ![p].status = "ok", ![p].id = pending[p].id]
    /\ done' = Append(done, [ id |-> pending[p].id,
                              audio_file_name |-> call[p].audio_file_name,
                              transcribed_text |-> call[p].transcribed_text ])
    /\ pending' = [pending EXCEPT ![p] = NoRow]
    /\ writer' = IF writer = p THEN NoCaller ELSE writer
    /\ pc' = [pc EXCEPT ![p] = "idle"]
    /\ UNCHANGED <<namers, ncalls, now, lastRead, httpVars>>

-----------------------------------------------------------------------------
(* Reads: each runs one SELECT on its own connection and sees committed rows *)

\* TranscriptionsRepository.get(id)
Get(id) ==
    /\ lastRead' = [op |-> "get", arg |-> id, asof |-> Len(done), during |-> writer,
                    result |-> SelectById(rows, id)]
    /\ UNCHANGED <<rows, writer, pending, pc, call, done, namers, ncalls, now, httpVars>>

\* TranscriptionsRepository.get_all()
GetAll ==
    /\ lastRead' = [op |-> "get_all", arg |-> 0, asof |-> Len(done), during |-> writer,
                    result |-> SelectAll(rows)]
    /\ UNCHANGED <<rows, writer, pending, pc, call, done, namers, ncalls, now, httpVars>>

\* TranscriptionsRepository.search(query)
Search(query) ==
    /\ lastRead' = [op |-> "search", arg |-> query, asof |-> Len(done), during |-> writer,
                    result |-> SelectWhere(rows, query)]
    /\ UNCHANGED <<rows, writer, pending, pc, call, done, namers, ncalls, now, httpVars>>

\* Mutant: the table is dropped and created again.
CreateTableAnew(table) == <<>>

\* CREATE TABLE IF NOT EXISTS transcriptions (...): the table exists, so the
\* statement does nothing (it takes no write lock either).
CreateTableIfNotExists(table) == table

\* TranscriptionsRepository(db_path), as TranscriptionsService() runs it for
\* every request: _create_table on a connection of its own.
NewRepository ==
    /\ rows' = CreateTableIfNotExists(rows)
    /\ lastRead' = [op |-> "__init__", arg |-> 0, asof |-> Len(done), during |-> writer,
                    result |-> <<>>]
    /\ UNCHANGED <<writer, pending, pc, call, done, namers, ncalls, now, httpVars>>

\* The wall clock advances.
Tick ==
    /\ now < MaxTime
    /\ now' = now + 1
    /\ UNCHANGED <<rows, writer, pending, pc, call, done, namers, ncalls, lastRead, httpVars>>

-----------------------------------------------------------------------------
(* Inputs of POST /transcribe *)

Mp3 == <<".", "m", "p", "3">>

HttpFileNames ==
    { <<"a", ".", "m", "p", "3">>, <<"b", ".", "M", "p", "3">>,
      <<"c", ".", "w", "a", "v">>, <<".">> }

\* The uploaded batch: the filenames of `files`, in input order.
Batches == UNION { [1..n -> HttpFileNames] : n \in 0..MaxBatch }

\* Filenames of uploads that two requests share; file.filename is the name the
\* client sent, directory parts included.
SharedFileNames ==
    { <<"a", ".", "m", "p", "3">>, <<".", ".", "/", "a", ".", "m", "p", "3">> }

SharedBatches == UNION { [1..n -> SharedFileNames] : n \in 0..MaxBatch }

\* What TranscriberService().transcribe_audio(path) can do: return the decoded
\* text, return None, or raise.
CapTexts == { <<"H", "i", "!">>, <<"x">> }
CapOutcomes ==
    [kind : {"text"}, text : CapTexts, type : {"-"}]
    \cup { [kind |-> "None", text |-> <<>>, type |-> "-"] }
    \cup [kind : {"raise"}, text : {<<>>}, type : {"ValueError", "RuntimeError"}]

-----------------------------------------------------------------------------
(* The file system under the temp root *)

Digits == <<"1", "2", "3", "4", "5">>

\* tempfile.mkdtemp(): a directory name no earlier call returned
Mkdtemp(n) == <<"t", Digits[n + 1]>>

\* os.path.join(temp_dir, file.filename) for a relative filename
Join(dir, name) == dir \o <<"/">> \o name

\* Position of the first "/" of a path that has one.
FirstSlash(path) ==
    CHOOSE k \in 1..Len(path) : path[k] = "/" /\ \A j \in 1..(k - 1) : path[j] # "/"

\* The path is <directory>/../<rest>.
ClimbsOut(path) ==
    /\ \E k \in 1..Len(path) : path[k] = "/"
    /\ Len(path) > FirstSlash(path) + 3
    /\ SubSeq(path, FirstSlash(path), FirstSlash(path) + 3) = <<"/", ".", ".", "/">>

\* The kernel resolves a final "." component to the directory itself and
\* <directory>/../<rest> to <rest> in the temp root.
Resolve(path) ==
    IF EndsWith(path, <<"/", ".">>) THEN SubSeq(path, 1, Len(path) - 2)
    ELSE IF ClimbsOut(path) THEN SubSeq(path, FirstSlash(path) + 4, Len(path))
    ELSE path

\* os.path.exists(path)
Exists(dirs, files, path) == Resolve(path) \in (dirs \cup files)

\* open(path, 'wb') raises IsADirectoryError when path names a directory
OpenRaises(dirs, path) == Resolve(path) \in dirs

IsUnder(path, dir) ==
    /\ Len(path) > Len(dir) + 1
    /\ SubSeq(path, 1, Len(dir) + 1) = dir \o <<"/">>

\* for temp_file in temp_files: if os.path.exists(temp_file): os.remove(temp_file)
\* os.remove raises on a directory, which ends the loop.
RECURSIVE RemoveAll(_, _, _)
RemoveAll(temp_files, dirs, files) ==
    IF temp_files = <<>> THEN [files |-> files, raised |-> FALSE]
    ELSE IF ~Exists(dirs, files, Head(temp_files))
         THEN RemoveAll(Tail(temp_files), dirs, files)
    ELSE IF Resolve(Head(temp_files)) \in dirs
         THEN [files |-> files, raised |-> TRUE]
    ELSE RemoveAll(Tail(temp_files), dirs, files \ {Resolve(Head(temp_files))})

\* The finally block: remove the staged files, then os.rmdir(temp_dir), which
\* raises when the directory is not empty.
Cleanup(temp_files, temp_dir, dirs, files) ==
    LET removed == RemoveAll(temp_files, dirs, files) IN
    IF removed.raised
    THEN [dirs |-> dirs, files |-> removed.files, raised |-> TRUE]
    ELSE IF ~Exists(dirs, removed.files, temp_dir)
         THEN [dirs |-> dirs, files |-> removed.files, raised |-> FALSE]
    ELSE IF \E f \in removed.files : IsUnder(f, temp_dir)
         THEN [dirs |-> dirs, files |-> removed.files, raised |-> TRUE]
    ELSE [dirs |-> dirs \ {temp_dir}, files |-> removed.files, raised |-> FALSE]

-----------------------------------------------------------------------------
(* POST /transcribe *)

NoResponse == [status |-> 0, detail |-> <<>>, results |-> <<>>]

\* raise HTTPException(status_code, detail)
HTTPException(status, detail) == [status |-> status, detail |-> detail, results |-> <<>>]

\* JSONResponse(status_code=200, content={"status": "success", "results": results})
JSONResponse(results) == [status |-> 200, detail |-> <<"success">>, results |-> results]

\* What the framework answers when the handler lets another exception escape.
InternalServerError ==
    [status |-> 500, detail |-> <<"Internal Server Error">>, results |-> <<>>]

\* Mutant: the gate compares without lower().
PassesGateCaseSensitive(path) == EndsWith(path, Mp3)

\* The format gate: temp_file_path.lower().endswith(".mp3")
PassesGate(path) == EndsWith(Lower(path), Mp3)

\* except ValueError -> 409;  except HTTPException -> re-raised;
\* except Exception -> 500.  The detail is str(e).
ExceptionResponse(type, message) ==
    IF type = "ValueError" THEN HTTPException(409, <<message>>)
    ELSE HTTPException(500, <<message>>)

\* Mutant: the None check is missing.
ResultIsNoneNever(cap) == FALSE

\* if result is None
ResultIsNone(cap) == cap.kind = "None"

\* Lines 72-90 for one staged item: the gate, the capability, the success entry.
\* `cap` is what the capability does if it is called.  result is the returned
\* text, so result[0] and result[1] are its first and second characters.
\* Gives the entry appended to results, or the exception's response.
ItemResult(path, filename, cap) ==
    IF ~PassesGate(path)
    THEN [ok |-> FALSE, called |-> FALSE,
          response |-> HTTPException(400, <<"Invalid file type", filename>>)]
    ELSE IF cap.kind = "raise"
    THEN [ok |-> FALSE, called |-> TRUE,
          response |-> ExceptionResponse(cap.type, "capability error")]
    ELSE IF ResultIsNone(cap)
    THEN [ok |-> FALSE, called |-> TRUE,
          response |-> HTTPException(400, <<"Audio transcription failed", filename>>)]
    ELSE IF Len(cap.text) < 2
    THEN \* result[0] or result[1] raises IndexError
         [ok |-> FALSE, called |-> TRUE,
          response |-> ExceptionResponse("IndexError", "string index out of range")]
    ELSE [ok |-> TRUE, called |-> TRUE,
          entry |-> [ status |-> "success",
                      transcription_id |-> SubSeq(cap.text, 1, 1),
                      transcription_text |-> SubSeq(cap.text, 2, 2),
                      filename |-> filename ]]

\* Mutant: a transcribed item is stored under its filename, with a fresh id.
StoreAfterItemCreates(table, filename, cap) ==
    IF cap.kind = "text" /\ ~UniqueViolation(table, filename)
    THEN Append(table, [ id |-> NextRowId(table), audio_file_name |-> filename,
                         transcribed_text |-> cap.text, created_at |-> 0 ])
    ELSE table

\* Table transcriptions after lines 78-90 ran for one item: neither the handler
\* nor transcribe_audio calls TranscriptionsService.create or touches the
\* database, so the table is as it was.
StoreAfterItem(table, filename, cap) == table

\* The handler leaves through `finally`: the response is the one raised or
\* returned, unless the cleanup itself raises.
Leave(st, response, dirs, files) ==
    LET c == Cleanup(st.temp_files, st.temp_dir, dirs, files) IN
    [ st    |-> [st EXCEPT !.pc = "done",
                           !.response = IF c.raised THEN InternalServerError
                                        ELSE response],
      dirs  |-> c.dirs,
      files |-> c.files ]

\* Mutant: a failed item is recorded and the loop goes on with the next one.
RaiseAndContinue(st, response, dirs, files) ==
    IF st.i >= Len(st.files)
    THEN Leave(st, response, dirs, files)
    ELSE LET path == Join(st.temp_dir, st.files[st.i + 1])
         IN  [ st    |-> [st EXCEPT !.pc = "read", !.i = @ + 1,
                                    !.temp_files = Append(@, path),
                                    !.staged = @ \cup {path}],
               dirs  |-> dirs,
               files |-> files \cup {Resolve(path)} ]

\* An exception raised inside the try block ends the loop: the handler maps it
\* to its response and leaves through `finally`.
Raise(st, response, dirs, files) == Leave(st, response, dirs, files)

\* Lines 64-70 up to `await file.read()` for item st.i: join, append to
\* temp_files, open for writing.  At the end of `files` the handler returns.
Stage(st, dirs, files) ==
    IF st.i > Len(st.files)
    THEN Leave(st, JSONResponse(st.results), dirs, files)
    ELSE LET path == Join(st.temp_dir, st.files[st.i])
             st1 == [st EXCEPT !.temp_files = Append(@, path)]
         IN  IF OpenRaises(dirs, path)
             THEN Raise(st1, ExceptionResponse("IsADirectoryError", "Is a directory"),
                        dirs, files)
             ELSE [ st    |-> [st1 EXCEPT !.pc = "read",
                                          !.staged = @ \cup {path}],
                    dirs  |-> dirs,
                    files |-> files \cup {Resolve(path)} ]

IdleRequest ==
    [ pc |-> "idle", files |-> <<>>, i |-> 0, temp_dir |-> <<>>, temp_files |-> <<>>,
      results |-> <<>>, response |-> NoResponse, capLog |-> <<>>, staged |-> {},
      rows_before |-> <<>> ]

\* The request arrives: results = [], temp_files = [], temp_dir = mkdtemp(),
\* then the loop runs up to the first `await file.read()`.  The requests are
\* numbered in their order of arrival.
TranscribeBegin(r, batch) ==
    /\ req[r].pc = "idle"
    /\ \A q \in Reqs : q < r => req[q].pc # "idle"
    /\ LET dir == Mkdtemp(ndirs)
           st  == [IdleRequest EXCEPT !.files = batch, !.i = 1, !.temp_dir = dir,
                                      !.rows_before = rows]
       IN  \E nx \in {Stage(st, fsDirs \cup {dir}, fsFiles)} :
               /\ req' = [req EXCEPT ![r] = nx.st]
               /\ fsDirs' = nx.dirs
               /\ fsFiles' = nx.files
    /\ ndirs' = ndirs + 1
    /\ UNCHANGED repoVars

\* The upload has been read: the content is written, the item goes through the
\* gate and the capability, and the loop goes on to the next `await` or the
\* handler returns or raises.
TranscribeResume(r, cap) ==
    /\ req[r].pc = "read"
    /\ LET st   == req[r]
           path == st.temp_files[Len(st.temp_files)]
       IN  \E res \in {ItemResult(path, st.files[st.i], cap)} :
           LET st1 == IF res.called
                      THEN [st EXCEPT !.capLog = Append(@, [path |-> path, cap |-> cap])]
                      ELSE st
           IN  \E nx \in { IF res.ok
                            THEN Stage([st1 EXCEPT !.results = Append(@, res.entry),
                                                   !.i = @ + 1], fsDirs, fsFiles)
                            ELSE Raise(st1, res.response, fsDirs, fsFiles) } :
                   /\ req' = [req EXCEPT ![r] = nx.st]
                   /\ fsDirs' = nx.dirs
                   /\ fsFiles' = nx.files
                   /\ rows' = IF res.called
                              THEN StoreAfterItem(rows, st.files[st.i], cap)
                              ELSE rows
    /\ UNCHANGED <<ndirs, writer, pending, pc, call, done, namers, ncalls, now, lastRead>>

-----------------------------------------------------------------------------
(* The GET routes *)

\* {transcription_id} path segments and ?query= parameters.  A query parameter
\* is <<q>> when the request carries query=q and <<>> when it carries none.
PathIds == { <<"1">>, <<"2">>, <<"0", "1">>, <<"x">> }
QueryParams == { <<>>, << <<>> >>, << <<"i">> >> }

DecimalDigits == <<"0", "1", "2", "3", "4", "5", "6", "7", "8", "9">>

IsDigit(c) == \E d \in 1..Len(DecimalDigits) : DecimalDigits[d] = c

DigitValue(c) == (CHOOSE d \in 1..Len(DecimalDigits) : DecimalDigits[d] = c) - 1

RECURSIVE DecimalValue(_)
DecimalValue(text) ==
    IF text = <<>> THEN 0
    ELSE 10 * DecimalValue(SubSeq(text, 1, Len(text) - 1)) + DigitValue(text[Len(text)])

\* Mutant: the column has no INTEGER affinity, a text parameter stays text.
TextStaysText(text) == <<>>

\* get_transcription hands the path segment to the query as a str.  In
\* `id = ?` SQLite applies the INTEGER affinity of column id to the text: a
\* string of digits becomes that integer (<<n>>), other text stays text (<<>>)
\* and equals no rowid.
IntegerAffinity(text) ==
    IF text # <<>> /\ \A k \in 1..Len(text) : IsDigit(text[k])
    THEN <<DecimalValue(text)>>
    ELSE <<>>

\* TranscriptionsRepository.get(id) with a str argument
SelectByIdText(table, text) ==
    IF IntegerAffinity(text) = <<>> THEN <<>>
    ELSE SelectById(table, IntegerAffinity(text)[1])

\* datetime.isoformat() of a whole-second datetime: its second
Isoformat(t) == [iso |-> t \div TicksPerSecond]

\* TranscriptionRecord.to_dict
ToDict(record) ==
    [ id               |-> record.record_id,
      audio_file_name  |-> record.audio_file_name,
      transcribed_text |-> record.transcribed_text,
      created_at       |-> Isoformat(record.created_at) ]

\* TranscriptionsService.get: record.to_dict() if record else None
ServiceGet(table, transcription_id) ==
    LET record == SelectByIdText(table, transcription_id)
    IN  IF record = <<>> THEN <<>> ELSE <<ToDict(record[1])>>

\* TranscriptionsService.get_all
ServiceGetAll(table) ==
    LET records == SelectAll(table) IN [k \in 1..Len(records) |-> ToDict(records[k])]

\* TranscriptionsService.search
ServiceSearch(table, query) ==
    LET records == SelectWhere(table, query)
    IN  [k \in 1..Len(records) |-> ToDict(records[k])]

\* What a store call inside a GET handler can do besides returning: raise
\* sqlite3.OperationalError('database is locked') when it waited timeout=30
\* seconds for another connection's lock, or raise something else.
ReadFaults == {"none", "OperationalError", "Exception"}

FaultMessage(fault) ==
    IF fault = "OperationalError" THEN "database is locked" ELSE "Test error"

FaultPossible(fault) == fault = "OperationalError" => writer # NoCaller

\* JSONResponse(status_code=200, content=content)
ContentResponse(content) == [status |-> 200, detail |-> <<>>, results |-> content]

\* FastAPI's answer when the required parameter `query: str` is missing; the
\* handler is not entered.
RequestValidationError ==
    [status |-> 422, detail |-> <<"Field required", "query">>, results |-> <<>>]

\* except Exception as e: raise HTTPException(status_code=500, detail=str(e))
ReadExceptionResponse(type, message) == HTTPException(500, <<message>>)

\* GET /transcriptions/{transcription_id}
GetTranscription(transcription_id, fault) ==
    /\ FaultPossible(fault)
    /\ lastRead' =
           [ op |-> "GET /transcriptions/{id}",
             arg |-> [path |-> transcription_id, fault |-> fault],
             asof |-> Len(done),
             result |->
                 IF fault # "none"
                 THEN ReadExceptionResponse(fault, FaultMessage(fault))
                 ELSE LET transcription == ServiceGet(rows, transcription_id)
                      IN  IF transcription = <<>>
                          THEN HTTPException(404, <<"Transcription not found">>)
                          ELSE ContentResponse(transcription[1]) ]
    /\ UNCHANGED <<rows, writer, pending, pc, call, done, namers, ncalls, now, httpVars>>

\* GET /transcriptions/search
SearchTranscription(query, fault) ==
    /\ FaultPossible(fault)
    /\ query = <<>> => fault = "none"
    /\ lastRead' =
           [ op |-> "GET /transcriptions/search",
             arg |-> [query |-> query, fault |-> fault],
             asof |-> Len(done),
             result |->
                 IF query = <<>> THEN RequestValidationError
                 ELSE IF fault # "none"
                 THEN ReadExceptionResponse(fault, FaultMessage(fault))
                 ELSE ContentResponse(ServiceSearch(rows, query[1])) ]
    /\ UNCHANGED <<rows, writer, pending, pc, call, done, namers, ncalls, now, httpVars>>

\* GET /transcriptions
GetTranscriptions(fault) ==
    /\ FaultPossible(fault)
    /\ lastRead' =
           [ op |-> "GET /transcriptions",
             arg |-> [fault |-> fault],
             asof |-> Len(done),
             result |->
                 IF fault # "none"
                 THEN ReadExceptionResponse(fault, FaultMessage(fault))
                 ELSE ContentResponse(ServiceGetAll(rows)) ]
    /\ UNCHANGED <<rows, writer, pending, pc, call, done, namers, ncalls, now, httpVars>>

\* The INSERT waited timeout=30 seconds for the write lock another connection
\* holds: sqlite3.OperationalError('database is locked') leaves create, which
\* closes the connection; nothing was written.
CreateTimeout(p) ==
    /\ pc[p] = "execute"
    /\ ~WriteLockFree
    /\ call' = [call EXCEPT ![p].status = "OperationalError"]
    /\ pc' = [pc EXCEPT ![p] = "idle"]
    /\ UNCHANGED <<rows, writer, pending, done, namers, ncalls, now, lastRead, httpVars>>

-----------------------------------------------------------------------------

InitRepo ==
    /\ rows = <<>>
    /\ writer = NoCaller
    /\ pending = [p \in Callers |-> NoRow]
    /\ pc = [p \in Callers |-> "idle"]
    /\ call = [p \in Callers |-> NoCall]
    /\ done = <<>>
    /\ namers = [f \in RepoFileNames |-> {}]
    /\ ncalls = 0
    /\ now = 0
    /\ lastRead = [op |-> "none", arg |-> 0, asof |-> 0, during |-> NoCaller, result |-> <<>>]

InitHttp ==
    /\ fsDirs = {}
    /\ fsFiles = {}
    /\ ndirs = 0
    /\ req = [r \in Reqs |-> IdleRequest]

Init == InitRepo /\ InitHttp

MaxId == Cardinality(RepoFileNames) + 1

NextCreate ==
    \/ \E p \in Callers, name \in RepoFileNames, text \in RepoTexts :
           CreateCall(p, name, text)
    \/ \E p \in Callers : CreateExecute(p)
    \/ \E p \in Callers : CreateCommit(p)

NextRead ==
    \/ \E id \in 1..MaxId : Get(id)
    \/ GetAll

NextSearch == \E query \in Queries : Search(query)

NextHttp ==
    \/ \E r \in Reqs, batch \in Batches : TranscribeBegin(r, batch)
    \/ \E r \in Reqs, cap \in CapOutcomes : TranscribeResume(r, cap)

Next == NextCreate \/ NextRead \/ NextSearch \/ Tick \/ NextHttp

\* Everything together.
Spec == Init /\ [][Next]_vars

\* The repository under concurrent creates and reads.
SpecRepo == Init /\ [][NextCreate \/ NextRead]_vars

\* The repository under concurrent creates and searches.
SpecSearch == Init /\ [][NextCreate \/ NextSearch]_vars

\* The repository with the wall clock running.
SpecClock == Init /\ [][NextCreate \/ (\E id \in 1..MaxId : Get(id)) \/ Tick]_vars

\* The POST /transcribe requests.
SpecHttp == Init /\ [][NextHttp]_vars

NextStaging ==
    \/ \E r \in Reqs, batch \in SharedBatches : TranscribeBegin(r, batch)
    \/ \E r \in Reqs, cap \in CapOutcomes : TranscribeResume(r, cap)

\* Two POST /transcribe requests that upload the same filenames.
SpecStaging == Init /\ [][NextStaging]_vars

NextGet ==
    \/ \E transcription_id \in PathIds, fault \in ReadFaults :
           GetTranscription(transcription_id, fault)
    \/ \E query \in QueryParams, fault \in ReadFaults : SearchTranscription(query, fault)
    \/ \E fault \in ReadFaults : GetTranscriptions(fault)

\* The repository under creates, lock timeouts, every read and constructions.
SpecStore ==
    Init /\ [][NextCreate \/ (\E p \in Callers : CreateTimeout(p))
                 \/ NextRead \/ NextSearch \/ NewRepository]_vars

\* The GET routes next to concurrent creates, lock timeouts included.
SpecApi == Init /\ [][NextCreate \/ (\E p \in Callers : CreateTimeout(p)) \/ NextGet]_vars

-----------------------------------------------------------------------------
(* Properties of the repository *)

RowsNamed(name) == {i \in 1..Len(rows) : rows[i].audio_file_name = name}

Returned(p) == call[p].status \in {"ok", "ValueError"}

Fresh(p) == Returned(p) /\ ~call[p].stored_before

Concurrent(p, q) == p # q /\ q \in call[p].overlap /\ Fresh(p) /\ Fresh(q)

C8_SearchIsSubstring ==
    lastRead.op = "search" =>
        \A i \in 1..lastRead.asof :
            (\E k \in 1..Len(lastRead.result) : lastRead.result[k].record_id = rows[i].id)
            <=> \/ IsSubstring(Lower(lastRead.arg), Lower(rows[i].audio_file_name))
                \/ IsSubstring(Lower(lastRead.arg), Lower(rows[i].transcribed_text))

\* C9: get_all returns every committed record, in ascending id order, which is
\* the order in which the creates committed; ids grow with every commit and
\* are never assigned twice.
C9_InsertionOrder ==
    /\ \A i, j \in 1..Len(done) : i < j => done[i].id < done[j].id
    /\ lastRead.op = "get_all" =>
           /\ Len(lastRead.result) = lastRead.asof
           /\ \A i \in 1..Len(lastRead.result) :
                  /\ lastRead.result[i].record_id = done[i].id
                  /\ lastRead.result[i].audio_file_name = done[i].audio_file_name
                  /\ lastRead.result[i].transcribed_text = done[i].transcribed_text
           /\ \A i, j \in 1..Len(lastRead.result) :
                  i < j => lastRead.result[i].record_id < lastRead.result[j].record_id

\* C9 witness: get_all returned two records.
C9_Witness == lastRead.op = "get_all" /\ Len(lastRead.result) >= 2

\* get(id) ran after p's create returned id.
GotAfterCreate(p) ==
    /\ call[p].status = "ok"
    /\ lastRead.op = "get"
    /\ lastRead.arg = call[p].id
    /\ \E i \in 1..lastRead.asof : done[i].id = call[p].id

RoundTrip(p) ==
    /\ Len(lastRead.result) = 1
    /\ lastRead.result[1].record_id = call[p].id
    /\ lastRead.result[1].audio_file_name = call[p].audio_file_name
    /\ lastRead.result[1].transcribed_text = call[p].transcribed_text

\* C10 (as claimed): get(id) after a successful create gives the same id,
\* filename and text and a createdAt no earlier than the time of the call.
C10_RoundTripNotEarlier ==
    \A p \in Callers :
        GotAfterCreate(p) =>
            /\ RoundTrip(p)
            /\ lastRead.result[1].created_at >= call[p].called_at

\* C10 (amended): get(id) after a successful create gives the same id, filename
\* and text and a createdAt that is a whole second and less than one second
\* earlier than the time of the call.
C10_RoundTrip ==
    \A p \in Callers :
        GotAfterCreate(p) =>
            /\ RoundTrip(p)
            /\ lastRead.result[1].created_at % TicksPerSecond = 0
            /\ lastRead.result[1].created_at + TicksPerSecond > call[p].called_at

\* C10 witness: a round trip whose createdAt lies before the call time, with
\* another record created in between.
C10_Witness ==
    \E p \in Callers :
        /\ GotAfterCreate(p)
        /\ RoundTrip(p)
        /\ lastRead.result[1].created_at < call[p].called_at
        /\ Len(rows) >= 2

-----------------------------------------------------------------------------
(* Properties of POST /transcribe *)

Answered(r) == req[r].pc = "done"

NameIsMp3(name) == EndsWith(Lower(name), Mp3)

\* C2 (as claimed): after a 200, every item has a record with its filename and
\* the whole transcribed text, and its entry carries that record's id, the
\* whole text and the filename.
C2_SuccessPersists ==
    \A r \in Reqs :
        (Answered(r) /\ req[r].response.status = 200) =>
            /\ Len(req[r].response.results) = Len(req[r].files)
            /\ \A j \in 1..Len(req[r].files) :
                   /\ req[r].response.results[j].filename = req[r].files[j]
                   /\ req[r].response.results[j].transcription_text
                          = req[r].capLog[j].cap.text
                   /\ \E i \in 1..Len(rows) :
                          /\ rows[i].audio_file_name = req[r].files[j]
                          /\ rows[i].transcribed_text = req[r].capLog[j].cap.text
                          /\ req[r].response.results[j].transcription_id = rows[i].id

\* C3 (as claimed): a transcribed item whose filename already has a record, or
\* repeats an earlier item of the batch, makes the request end with 409 and
\* leaves exactly one record for that filename.
C3_DuplicateIsConflict ==
    \A r \in Reqs :
        Answered(r) =>
            \A k \in 1..Len(req[r].capLog) :
                ( /\ req[r].capLog[k].cap.kind = "text"
                  /\ \/ Stored(req[r].files[k])
                     \/ \E j \in 1..(k - 1) : req[r].files[j] = req[r].files[k] )
                => /\ req[r].response.status = 409
                   /\ Cardinality(RowsNamed(req[r].files[k])) = 1

\* C5 (as claimed): once the request is answered, no file it staged and not
\* its staging directory exist any more.
C5_CleanupInvariant ==
    \A r \in Reqs :
        Answered(r) =>
            /\ ~Exists(fsDirs, fsFiles, req[r].temp_dir)
            /\ \A path \in req[r].staged : ~Exists(fsDirs, fsFiles, path)

\* C6 (as claimed): every uploaded item whose filename does not end in .mp3
\* makes the request fail with 400 'Invalid file type', and the capability is
\* never invoked for it.
C6_EveryBadNameIs400 ==
    \A r \in Reqs :
        Answered(r) =>
            \A j \in 1..Len(req[r].files) :
                ~NameIsMp3(req[r].files[j]) =>
                    /\ req[r].response.status = 400
                    /\ req[r].response.detail[1] = "Invalid file type"
                    /\ \A k \in 1..Len(req[r].capLog) :
                           req[r].capLog[k].path # Join(req[r].temp_dir, req[r].files[j])

\* C6 (amended): the capability is never invoked for an item whose filename
\* does not end in .mp3 (any letter case); when such an item is reached and
\* staged, the request fails with 400 'Invalid file type' for that filename;
\* a staged item whose filename ends in .mp3 in any letter case passes the
\* gate, i.e. the capability is invoked for it.
C6_FormatGate ==
    \A r \in Reqs :
        \A j \in 1..Len(req[r].temp_files) :
            LET name == req[r].files[j]
                path == req[r].temp_files[j]
            IN  IF ~NameIsMp3(name)
                THEN /\ \A k \in 1..Len(req[r].capLog) : req[r].capLog[k].path # path
                     /\ (Answered(r) /\ path \in req[r].staged) =>
                            req[r].response = HTTPException(400, <<"Invalid file type", name>>)
                ELSE (Answered(r) /\ path \in req[r].staged) =>
                         /\ j <= Len(req[r].capLog)
                         /\ req[r].capLog[j].path = path
                         /\ req[r].response
                                # HTTPException(400, <<"Invalid file type", name>>)

\* C6 witness: a batch whose second item is not an MP3 was answered 400 for it
\* after the capability ran for the first item only, whose name ends in .Mp3.
C6_Witness ==
    \E r \in Reqs :
        /\ Answered(r)
        /\ Len(req[r].temp_files) = 2
        /\ ~NameIsMp3(req[r].files[2])
        /\ ~EndsWith(req[r].files[1], Mp3)
        /\ req[r].response.status = 400
        /\ req[r].response.detail[1] = "Invalid file type"
        /\ Len(req[r].capLog) = 1

\* C7: the items are staged and transcribed in input order, item i+1 is not
\* staged before item i has succeeded, and a request that fails is answered
\* with one failure, without success entries, nothing after the failing item
\* having been staged, transcribed or persisted.
C7_FailFast ==
    \A r \in Reqs :
        LET st == req[r] IN
        /\ \A j \in 1..Len(st.temp_files) :
               st.temp_files[j] = Join(st.temp_dir, st.files[j])
        /\ \A j \in 1..Len(st.capLog) :
               st.capLog[j].path = Join(st.temp_dir, st.files[j])
        /\ Len(st.results) <= Len(st.capLog)
        /\ Len(st.capLog) <= Len(st.temp_files)
        /\ Len(st.temp_files) <= Len(st.results) + 1
        /\ (Answered(r) /\ st.response.status # 200) =>
               /\ st.response.results = <<>>
               /\ Len(st.response.detail) \in {1, 2}
               /\ Len(st.temp_files) = Len(st.results) + 1
               /\ \A j \in 1..Len(st.files) :
                      j > Len(st.temp_files) => ~Stored(st.files[j])

\* C7 witness: the first of two items failed and the second was never staged.
C7_Witness ==
    \E r \in Reqs :
        /\ Answered(r)
        /\ Len(req[r].files) = 2
        /\ Len(req[r].temp_files) = 1
        /\ req[r].response.status # 200
        /\ req[r].response.results = <<>>

\* C11 (as claimed): whenever the capability raises while an item is processed,
\* whatever the exception type, the request is answered 500 with the
\* exception's message, never 409 or 400.
C11_CapabilityFaultIs500 ==
    \A r \in Reqs :
        Answered(r) =>
            \A k \in 1..Len(req[r].capLog) :
                req[r].capLog[k].cap.kind = "raise" =>
                    /\ req[r].response.status = 500
                    /\ req[r].response.detail = <<"capability error">>

\* C12: when the capability returns None for an item, the request fails with
\* 400 'Audio transcription failed' naming that file, no record exists for the
\* item, and no later item is staged or transcribed.
C12_NoResultIs400 ==
    \A r \in Reqs :
        \A k \in 1..Len(req[r].capLog) :
            req[r].capLog[k].cap.kind = "None" =>
                /\ Answered(r)
                /\ req[r].response
                       = HTTPException(400, <<"Audio transcription failed", req[r].files[k]>>)
                /\ ~Stored(req[r].files[k])
                /\ Len(req[r].capLog) = k
                /\ Len(req[r].temp_files) = k
                /\ Len(req[r].results) = k - 1

\* C12 witness: the first of at least two items got None and the next one was
\* never staged.
C12_Witness ==
    \E r \in Reqs :
        /\ Answered(r)
        /\ Len(req[r].files) >= 2
        /\ Len(req[r].capLog) = 1
        /\ req[r].capLog[1].cap.kind = "None"
        /\ Len(req[r].temp_files) = 1
        /\ req[r].response.status = 400
        /\ req[r].response.detail[1] = "Audio transcription failed"

-----------------------------------------------------------------------------
(* Properties of the GET routes *)

GetByIdOp == "GET /transcriptions/{id}"
GetSearchOp == "GET /transcriptions/search"
GetAllOp == "GET /transcriptions"

RECURSIVE StripZeros(_)
StripZeros(text) ==
    IF Len(text) > 1 /\ Head(text) = "0" THEN StripZeros(Tail(text)) ELSE text

RECURSIVE Numeral(_)
Numeral(n) ==
    IF n < 10 THEN <<DecimalDigits[n + 1]>>
    ELSE Numeral(n \div 10) \o <<DecimalDigits[(n % 10) + 1]>>

\* The path segment is a decimal numeral of id.
PathNames(path, id) == StripZeros(path) = Numeral(id)

\* The record view of a stored row, as the routes serialise it.
View(row) ==
    [ id               |-> row.id,
      audio_file_name  |-> row.audio_file_name,
      transcribed_text |-> row.transcribed_text,
      created_at       |-> [iso |-> row.created_at] ]

\* The views of the first n committed rows, in id order.
Views(n) == [k \in 1..n |-> View(rows[k])]

\* C13: GET /transcriptions/{id} answers 200 with the view of the record whose
\* id the path names when there is one, 404 'Transcription not found' when
\* there is none, and 500 with the error's message exactly when the lookup
\* raised.
C13_GetById ==
    lastRead.op = GetByIdOp =>
        LET path == lastRead.arg.path
            hits == {k \in 1..lastRead.asof : PathNames(path, rows[k].id)}
        IN  IF lastRead.arg.fault # "none"
            THEN lastRead.result = HTTPException(500, <<FaultMessage(lastRead.arg.fault)>>)
            ELSE IF hits # {}
            THEN \E k \in hits :
                     lastRead.result = [status |-> 200, detail |-> <<>>, results |-> View(rows[k])]
            ELSE lastRead.result = HTTPException(404, <<"Transcription not found">>)

\* C13 witness: the second of two records was fetched by its id.
C13_Witness ==
    /\ lastRead.op = GetByIdOp
    /\ lastRead.arg.path = <<"2">>
    /\ lastRead.asof = 2
    /\ lastRead.result.status = 200
    /\ lastRead.result.results.id = 2

\* C14 (as claimed): GET /transcriptions/search answers 200 with every stored
\* record both for the empty query and for a request without the parameter.
C14_EmptyOrAbsentQuery ==
    ( /\ lastRead.op = GetSearchOp
      /\ lastRead.arg.fault = "none"
      /\ lastRead.arg.query \in { <<>>, << <<>> >> } )
    => lastRead.result = [status |-> 200, detail |-> <<>>, results |-> Views(lastRead.asof)]

\* C14 (amended): with query= (the empty string) the route answers 200 with
\* every stored record; without the parameter it answers 422 (the parameter is
\* required) and returns no record.
C14_EmptyQuery ==
    (lastRead.op = GetSearchOp /\ lastRead.arg.fault = "none") =>
        /\ lastRead.arg.query = << <<>> >> =>
               lastRead.result
                   = [status |-> 200, detail |-> <<>>, results |-> Views(lastRead.asof)]
        /\ lastRead.arg.query = <<>> =>
               /\ lastRead.result.status = 422
               /\ lastRead.result.results = <<>>

\* C14 witness: the empty query returned both stored records.
C14_Witness ==
    /\ lastRead.op = GetSearchOp
    /\ lastRead.arg.query = << <<>> >>
    /\ lastRead.result.status = 200
    /\ Len(lastRead.result.results) = 2

\* C19 (as claimed): a store operation that cannot get the lock within the
\* timeout fails, and a route reports that failure with an outcome of its own:
\* not 400, 409 or 404, and not the outcome of any other unexpected error.
C19_TimeoutIsDistinct ==
    /\ \A p \in Callers : call[p].status = "OperationalError" => pc[p] = "idle"
    /\ ( /\ lastRead.op \in {GetByIdOp, GetSearchOp, GetAllOp}
         /\ lastRead.arg.fault = "OperationalError" )
       => /\ lastRead.result.status \notin {400, 404, 409}
          /\ lastRead.result.status
                 # ReadExceptionResponse("Exception", FaultMessage("Exception")).status

-----------------------------------------------------------------------------
(* Properties of POST /transcribe and the store *)

\* C15 (as claimed): a batch whose item k is transcribed and whose filename
\* already has a record (here: repeats an earlier item of the batch) is aborted
\* at item k with the conflict, and the records of items 1..k-1 are in the
\* store after the request returned.
C15_PriorSuccessesPersist ==
    \A r \in Reqs :
        Answered(r) =>
            \A k \in 1..Len(req[r].capLog) :
                ( /\ req[r].capLog[k].cap.kind = "text"
                  /\ \E j \in 1..(k - 1) : req[r].files[j] = req[r].files[k] )
                => /\ req[r].response.status = 409
                   /\ \A j \in 1..(k - 1) :
                          \E i \in 1..Len(rows) :
                              /\ rows[i].audio_file_name = req[r].files[j]
                              /\ rows[i].transcribed_text = req[r].capLog[j].cap.text

\* Item j of request r was staged and rejected by the format gate.
Rejected(r, j) ==
    /\ Answered(r)
    /\ j <= Len(req[r].temp_files)
    /\ req[r].temp_files[j] \in req[r].staged
    /\ ~NameIsMp3(req[r].files[j])

C17_ReadersSeeCommitted ==
    lastRead.op \in {"get", "get_all", "search"} =>
        \A k \in 1..Len(lastRead.result) :
            LET record == lastRead.result[k] IN
            /\ DOMAIN record
                   = {"record_id", "audio_file_name", "transcribed_text", "created_at"}
            /\ \E i \in 1..lastRead.asof :
                   /\ done[i].id = record.record_id
                   /\ done[i].audio_file_name = record.audio_file_name
                   /\ done[i].transcribed_text = record.transcribed_text
            /\ record.record_id >= 1
            /\ record.audio_file_name \in RepoFileNames
            /\ record.transcribed_text \in RepoTexts
            /\ record.created_at \in 0..now

\* C17 witness: a get_all that ran while another connection had inserted a row
\* and not committed it returned the one committed record.
C17_Witness ==
    /\ lastRead.op = "get_all"
    /\ lastRead.during # NoCaller
    /\ lastRead.asof = 1
    /\ Len(lastRead.result) = 1

\* C18: the stored records change only in the commit of a successful create,
\* which adds one record, with the filename and text of the call, and leaves
\* every existing record as it was; reads, constructions and failed creates
\* leave the records unchanged.
C18_OnlyCreateWrites ==
    [][ /\ rows' # rows =>
               \E p \in Callers :
                   /\ pc[p] = "commit"
                   /\ call'[p].status = "ok"
                   /\ Len(rows') = Len(rows) + 1
                   /\ \A i \in 1..Len(rows) : rows'[i] = rows[i]
                   /\ rows'[Len(rows')].id = call'[p].id
                   /\ rows'[Len(rows')].audio_file_name = call[p].audio_file_name
                   /\ rows'[Len(rows')].transcribed_text = call[p].transcribed_text
        /\ lastRead' # lastRead => rows' = rows
        /\ \A p \in Callers :
               (call'[p] # call[p] /\ call'[p].status \in {"ValueError", "OperationalError"})
                   => rows' = rows
      ]_vars

\* C18 witness: with a record stored, a create failed and a repository was
\* constructed.
C18_Witness ==
    /\ Len(rows) >= 1
    /\ \E p \in Callers : call[p].status = "ValueError"
    /\ lastRead.op = "__init__"
    /\ lastRead.asof >= 1

\* C20 (as claimed): two requests in flight at the same time, also with the
\* same filenames, each stage inside their own staging directory, never write
\* the same path, and the cleanup of one leaves what the other staged: while a
\* request waits for its upload, its directory and the file it opened exist.
C20_StagingIsPrivate ==
    \A r, q \in Reqs :
        (r # q /\ req[r].pc # "idle" /\ req[q].pc # "idle") =>
            /\ req[r].temp_dir # req[q].temp_dir
            /\ \A x \in req[r].staged : IsUnder(Resolve(x), req[r].temp_dir)
            /\ \A x \in req[r].staged, y \in req[q].staged : Resolve(x) # Resolve(y)
            /\ req[r].pc = "read" =>
                   /\ req[r].temp_dir \in fsDirs
                   /\ Resolve(req[r].temp_files[Len(req[r].temp_files)]) \in fsFiles

====
